---- MODULE Spec2Model ----
(***************************************************************************)
(* Model of src/app.py: the GET /vidssave handler generate_session and the *)
(* serializer cookies_to_netscape.                                         *)
(*                                                                         *)
(* Encodings.  A Python string is a sequence of tokens (a token stands for *)
(* a run of characters), so that `in`, startswith, join and str are        *)
(* computed on the text.  An optional value (None or a value) is a         *)
(* sequence of length at most one: None is << >>, the value v is <<v>>.    *)
(* A Python dict is a function whose DOMAIN is the set of keys present.    *)
(***************************************************************************)
EXTENDS Integers, Sequences, FiniteSets, TLC

VARIABLES
    pc,               \* position of each request in generate_session
    youtube_url,      \* query parameter
    quality,          \* query parameter
    playwright,       \* the async_playwright() scope: "none", "started", "stopped"
    browser,          \* the Chromium process: "none", "open", "closed"
    observer,         \* TRUE once page.on("request", capture_request) has run
    parse_payload,    \* the nonlocal parse_payload of capture_request
    observed,         \* every request capture_request was called with, in order
    filled,           \* the text put into the input control
    clicked,          \* index of the button that was clicked, 0 when none
    replayed,         \* the argument page.evaluate was called with
    response,         \* what page.evaluate returned
    download_url,     \* the local download_url
    cookies_json,     \* the local cookies_json
    cookies_netscape, \* the local cookies_netscape
    result,           \* the HTTP response of the request
    fail,             \* the step whose failure ended the request, "none" otherwise
    closes,           \* number of browser.close() calls
    log               \* the session steps invoked, in order

vars == <<pc, youtube_url, quality, playwright, browser, observer, parse_payload,
          observed, filled, clicked, replayed, response, download_url,
          cookies_json, cookies_netscape, result, fail, closes, log>>

(***************************************************************************)
(* Bounds                                                                  *)
(***************************************************************************)
MaxRequests == 3   \* requests the page issues on its own during one session
MaxRes == 3        \* entries of data.resources in the replay response
MaxCookies == 2    \* cookies in the context

Reqs == {"r1", "r2"}
Solo == {"r1"}

(***************************************************************************)
(* Optional values and strings                                             *)
(***************************************************************************)
None == << >>
Some(v) == <<v>>

EmptyStr == << >>

\* Python `sub in s` on strings
Contains(s, sub) ==
    \E i \in 1..(Len(s) + 1) :
        /\ i + Len(sub) - 1 <= Len(s)
        /\ SubSeq(s, i, i + Len(sub) - 1) = sub

\* Python s.startswith(prefix)
StartsWith(s, prefix) ==
    /\ Len(prefix) <= Len(s)
    /\ SubSeq(s, 1, Len(prefix)) = prefix

\* Python dict.get(key) with None as the default
Get(d, k) == IF k \in DOMAIN d THEN d[k] ELSE None

Set(f, r, v) == [f EXCEPT ![r] = v]

SeqsUpTo(S, n) == UNION {[1..k -> S] : k \in 0..n}

(***************************************************************************)
(* cookies_to_netscape                                                     *)
(***************************************************************************)
Header == <<"# Netscape HTTP Cookie File">>
Tab == <<"\t">>
Newline == <<"\n">>

Digit(d) ==
    CASE d = 0 -> "0" [] d = 1 -> "1" [] d = 2 -> "2" [] d = 3 -> "3" [] d = 4 -> "4"
      [] d = 5 -> "5" [] d = 6 -> "6" [] d = 7 -> "7" [] d = 8 -> "8" [] d = 9 -> "9"

RECURSIVE StrNat(_)
StrNat(n) == IF n < 10 THEN <<Digit(n)>> ELSE StrNat(n \div 10) \o <<Digit(n % 10)>>

\* Python str(n) of an integer
Str(n) == IF n < 0 THEN <<"-">> \o StrNat(0 - n) ELSE StrNat(n)

\* Python `x or 0` of a number or None
OrZero(e) == IF e = None THEN 0 ELSE IF e[1] = 0 THEN 0 ELSE e[1]

\* Python sep.join(parts)
RECURSIVE Join(_, _)
Join(sep, parts) ==
    IF Len(parts) = 0 THEN EmptyStr
    ELSE IF Len(parts) = 1 THEN parts[1]
    ELSE parts[1] \o sep \o Join(sep, Tail(parts))

\* the flag from a dot anywhere in the domain
DomainFlagAnyDot(c) == IF Contains(c.domain, <<".">>) THEN <<"TRUE">> ELSE <<"FALSE">>

DomainFlag(c) == IF StartsWith(c.domain, <<".">>) THEN <<"TRUE">> ELSE <<"FALSE">>

SecureFlag(c) == IF c.secure THEN <<"TRUE">> ELSE <<"FALSE">>

ExpiresField(c) == Str(OrZero(c.expires))

CookieFields(c) ==
    <<c.domain, DomainFlag(c), c.path, SecureFlag(c), ExpiresField(c), c.name, c.value>>

CookieLine(c) == Join(Tab, CookieFields(c))

NetscapeLines(cookies) == <<Header>> \o [i \in 1..Len(cookies) |-> CookieLine(cookies[i])]

\* the serialization with a newline after the last line
cookies_to_netscape_trailing(cookies) == Join(Newline, NetscapeLines(cookies)) \o Newline

cookies_to_netscape(cookies) == Join(Newline, NetscapeLines(cookies))

(***************************************************************************)
(* capture_request                                                         *)
(***************************************************************************)
ParsePath == <<"/media", "/parse">>
Marker == <<"origin", "=cache">>
ApiUrl == <<"https://api.vidssave.com/api/contentsite_api", "/media", "/parse">>
SiteUrl == <<"https://vidssave.com/">>

\* Python `req.post_data or ""`
BodyOf(req) == IF req.post_data = None THEN EmptyStr ELSE req.post_data[1]

\* capture_request without its test of the body
capture_request_any_body(req, pp) ==
    IF Contains(req.url, ParsePath) /\ req.method = "POST" THEN req.post_data ELSE pp

\* the value of parse_payload after capture_request(req), pp being its value before
capture_request(req, pp) ==
    IF Contains(req.url, ParsePath) /\ req.method = "POST"
    THEN IF Contains(BodyOf(req), Marker) THEN req.post_data ELSE pp
    ELSE pp

\* parse_payload as a single variable that every session's observer assigns
CaptureShared(pp, r, req) == [x \in DOMAIN pp |-> capture_request(req, pp[x])]

\* lines 39 and 61: parse_payload is a local of the call of generate_session
\* that registered the observer (nonlocal), so the observer of session r
\* assigns the parse_payload of session r
Capture(pp, r, req) == [pp EXCEPT ![r] = capture_request(req, pp[r])]

\* a replay call that sends the payload with a parameter added to it
ReplayRequestRewritten(payload) ==
    [url |-> ApiUrl, method |-> "POST",
     post_data |-> IF payload = None THEN None ELSE Some(payload[1] \o <<"&replay=1">>)]

\* the request that the fetch of the replay call issues from the page
ReplayRequest(payload) == [url |-> ApiUrl, method |-> "POST", post_data |-> payload]

\* Python `not parse_payload`, `not download_url`
Falsy(opt) == opt = None \/ opt[1] = EmptyStr

(***************************************************************************)
(* The replay response and the selection of the download URL               *)
(***************************************************************************)
\* response["data"]["resources"]: a missing key raises
ReadResourcesStrict(resp) ==
    IF resp.shape = "list" THEN [ok |-> TRUE, resources |-> resp.resources]
    ELSE [ok |-> FALSE, resources |-> << >>]

\* response.get("data", {}).get("resources", []) followed by len(resources):
\* ok is FALSE where Python raises (a response or data that is no dict, a
\* resources value that is null)
ReadResources(resp) ==
    CASE resp.shape \in {"nodata", "nores"} -> [ok |-> TRUE, resources |-> << >>]
      [] resp.shape = "list" -> [ok |-> TRUE, resources |-> resp.resources]
      [] OTHER -> [ok |-> FALSE, resources |-> << >>]

\* the condition without its test of download_mode
ResourceMatchesAnyMode(res, q) ==
    /\ Get(res, "type") = Some("video")
    /\ Get(res, "format") = Some("MP4")
    /\ Get(res, "quality") = Some(q)

\* the condition of the if statement inside the loop over resources
ResourceMatches(res, q) ==
    /\ Get(res, "type") = Some("video")
    /\ Get(res, "format") = Some("MP4")
    /\ Get(res, "quality") = Some(q)
    /\ Get(res, "download_mode") = Some("direct")

\* the index at which the loop breaks, searching from i; 0 when it runs to the end
RECURSIVE FirstMatch(_, _, _)
FirstMatch(resources, q, i) ==
    IF i > Len(resources) THEN 0
    ELSE IF ResourceMatches(resources[i], q) THEN i
    ELSE FirstMatch(resources, q, i + 1)

\* the loop with r.get("download_url") in place of r["download_url"]
SelectDownloadUrlGet(resources, q) ==
    LET i == FirstMatch(resources, q, 1) IN
    IF i = 0 THEN [ok |-> TRUE, url |-> None]
    ELSE [ok |-> TRUE, url |-> Get(resources[i], "download_url")]

\* the loop over resources: ok is FALSE where r["download_url"] raises KeyError,
\* url is the value of download_url after the loop
SelectDownloadUrl(resources, q) ==
    LET i == FirstMatch(resources, q, 1) IN
    IF i = 0 THEN [ok |-> TRUE, url |-> None]
    ELSE IF "download_url" \notin DOMAIN resources[i] THEN [ok |-> FALSE, url |-> None]
    ELSE [ok |-> TRUE, url |-> resources[i]["download_url"]]

(***************************************************************************)
(* Leaving generate_session                                                *)
(***************************************************************************)
\* what the server answers when an exception that is no HTTPException leaves
\* the handler
ServerError == [status |-> 500, detail |-> "Internal Server Error"]

\* every raised HTTPException answered with status 500
HTTPException500(status, detail) == [status |-> 500, detail |-> detail]

HTTPException(status, detail) == [status |-> status, detail |-> detail]

\* the browser after `await browser.close()`
BrowserClose(b) == "closed"

\* a scope exit that leaves a running browser behind
AExitLeak(b) == b

\* the browser after the `async with async_playwright()` block is left: the
\* driver is stopped and a browser it still runs ends with it
AExit(b) == IF b = "open" THEN "closed" ELSE b

\* the block is left (by an exception or by falling off its end) and the
\* request is answered with res; b is the browser when the block is left
Leave(r, res, point, b) ==
    /\ pc' = Set(pc, r, "done")
    /\ playwright' = Set(playwright, r, "stopped")
    /\ browser' = Set(browser, r, AExit(b))
    /\ result' = Set(result, r, res)
    /\ fail' = Set(fail, r, point)

\* a failed call that is tried again instead of raising
UnhandledRetry(r, point) ==
    /\ log' = Set(log, r, Append(log[r], point))
    /\ UNCHANGED <<pc, youtube_url, quality, playwright, browser, observer, parse_payload,
                   observed, filled, clicked, replayed, response, download_url,
                   cookies_json, cookies_netscape, result, fail, closes>>

\* an awaited call raises an exception that nothing in the handler catches
Unhandled(r, point) ==
    /\ Leave(r, ServerError, point, browser[r])
    /\ log' = Set(log, r, Append(log[r], point))
    /\ UNCHANGED <<youtube_url, quality, observer, parse_payload, observed, filled,
                   clicked, replayed, response, download_url, cookies_json,
                   cookies_netscape, closes>>

(***************************************************************************)
(* generate_session, one action per awaited step                           *)
(***************************************************************************)
\* lines 34-42: the request arrives and the async with block is entered
Start(r, W) ==
    /\ pc[r] = "idle"
    /\ \E u \in W.urls, q \in W.qualities :
        /\ youtube_url' = Set(youtube_url, r, u)
        /\ quality' = Set(quality, r, q)
    /\ parse_payload' = Set(parse_payload, r, None)
    /\ download_url' = Set(download_url, r, None)
    /\ playwright' = Set(playwright, r, "started")
    /\ pc' = Set(pc, r, "launch")
    /\ UNCHANGED <<browser, observer, observed, filled, clicked, replayed, response,
                   cookies_json, cookies_netscape, result, fail, closes, log>>

\* lines 44-51
Launch(r) ==
    /\ pc[r] = "launch"
    /\ browser' = Set(browser, r, "open")
    /\ log' = Set(log, r, Append(log[r], "launch"))
    /\ pc' = Set(pc, r, "new_page")
    /\ UNCHANGED <<youtube_url, quality, playwright, observer, parse_payload, observed,
                   filled, clicked, replayed, response, download_url, cookies_json,
                   cookies_netscape, result, fail, closes>>

LaunchFails(r) ==
    /\ pc[r] = "launch"
    /\ Unhandled(r, "launch")

\* context and page without the registration of capture_request
NewPageUnobserved(r) ==
    /\ pc[r] = "new_page"
    /\ log' = Set(log, r, log[r] \o <<"new_context", "new_page">>)
    /\ pc' = Set(pc, r, "goto")
    /\ UNCHANGED <<youtube_url, quality, playwright, browser, observer, parse_payload,
                   observed, filled, clicked, replayed, response, download_url,
                   cookies_json, cookies_netscape, result, fail, closes>>

\* lines 55-69: context, page, and the registration of capture_request
NewPage(r) ==
    /\ pc[r] = "new_page"
    /\ observer' = Set(observer, r, TRUE)
    /\ log' = Set(log, r, log[r] \o <<"new_context", "new_page", "on">>)
    /\ pc' = Set(pc, r, "goto")
    /\ UNCHANGED <<youtube_url, quality, playwright, browser, parse_payload, observed,
                   filled, clicked, replayed, response, download_url, cookies_json,
                   cookies_netscape, result, fail, closes>>

\* an awaited page call returns and the handler goes on to the next one
Proceed(r, step, next) ==
    /\ log' = Set(log, r, Append(log[r], step))
    /\ pc' = Set(pc, r, next)
    /\ UNCHANGED <<youtube_url, quality, playwright, browser, observer, parse_payload,
                   observed, replayed, response, download_url, cookies_json,
                   cookies_netscape, result, fail, closes>>

\* line 73
GotoOk(r) ==
    /\ pc[r] = "goto"
    /\ Proceed(r, "goto", "wait_for_selector")
    /\ UNCHANGED <<filled, clicked>>

GotoTimeout(r) ==
    /\ pc[r] = "goto"
    /\ Unhandled(r, "goto")

\* line 77
WaitForSelectorOk(r) ==
    /\ pc[r] = "wait_for_selector"
    /\ Proceed(r, "wait_for_selector", "fill")
    /\ UNCHANGED <<filled, clicked>>

WaitForSelectorTimeout(r) ==
    /\ pc[r] = "wait_for_selector"
    /\ Unhandled(r, "wait_for_selector")

\* line 79
FillOk(r) ==
    /\ pc[r] = "fill"
    /\ filled' = Set(filled, r, Some(youtube_url[r]))
    /\ Proceed(r, "fill", "click")
    /\ UNCHANGED clicked

FillFails(r) ==
    /\ pc[r] = "fill"
    /\ Unhandled(r, "fill")

\* the index of the first visible button, 0 when none is visible
RECURSIVE FirstVisible(_, _)
FirstVisible(buttons, i) ==
    IF i > Len(buttons) THEN 0
    ELSE IF buttons[i] THEN i
    ELSE FirstVisible(buttons, i + 1)

\* lines 82-86: buttons[i] tells whether the i-th button of the page is visible
Click(r, W) ==
    /\ pc[r] = "click"
    /\ \E buttons \in W.buttons :
        LET i == FirstVisible(buttons, 1) IN
        /\ clicked' = Set(clicked, r, i)
        /\ Proceed(r, IF i = 0 THEN "no_click" ELSE "click", "sleep")
    /\ UNCHANGED filled

ClickFails(r) ==
    /\ pc[r] = "click"
    /\ Unhandled(r, "click")

\* the fixed wait followed by the replay call, parse_payload untested
SleepUnchecked(r) ==
    /\ pc[r] = "sleep"
    /\ log' = Set(log, r, Append(log[r], "sleep"))
    /\ pc' = Set(pc, r, "evaluate")
    /\ replayed' = Set(replayed, r, parse_payload[r])
    /\ UNCHANGED <<youtube_url, quality, playwright, browser, observer, parse_payload,
                   observed, filled, clicked, response, download_url, cookies_json,
                   cookies_netscape, result, fail, closes>>

\* lines 89-100: the fixed wait ends, parse_payload is tested, and either the
\* failure branch is entered or page.evaluate is called with parse_payload
Sleep(r) ==
    /\ pc[r] = "sleep"
    /\ log' = Set(log, r, Append(log[r], "sleep"))
    /\ IF Falsy(parse_payload[r])
       THEN /\ pc' = Set(pc, r, "close_payload")
            /\ UNCHANGED replayed
       ELSE /\ pc' = Set(pc, r, "evaluate")
            /\ replayed' = Set(replayed, r, parse_payload[r])
    /\ UNCHANGED <<youtube_url, quality, playwright, browser, observer, parse_payload,
                   observed, filled, clicked, response, download_url, cookies_json,
                   cookies_netscape, result, fail, closes>>

\* the failure branch without its raise: the browser is closed and the
\* handler goes on to the replay call
ClosePayloadNoRaise(r) ==
    /\ pc[r] = "close_payload"
    /\ closes' = Set(closes, r, closes[r] + 1)
    /\ log' = Set(log, r, Append(log[r], "close"))
    /\ browser' = Set(browser, r, BrowserClose(browser[r]))
    /\ pc' = Set(pc, r, "evaluate")
    /\ UNCHANGED <<youtube_url, quality, playwright, observer, parse_payload, observed,
                   filled, clicked, replayed, response, download_url, cookies_json,
                   cookies_netscape, result, fail>>

\* lines 93-94
ClosePayload(r) ==
    /\ pc[r] = "close_payload"
    /\ closes' = Set(closes, r, closes[r] + 1)
    /\ log' = Set(log, r, Append(log[r], "close"))
    /\ Leave(r, HTTPException(500, "Failed to capture parse payload"), "payload",
             BrowserClose(browser[r]))
    /\ UNCHANGED <<youtube_url, quality, observer, parse_payload, observed, filled,
                   clicked, replayed, response, download_url, cookies_json,
                   cookies_netscape>>

\* lines 100-112: the page issues the fetch of the replay call; capture_request
\* sees that request like any other request of the page
EvaluateSend(r) ==
    /\ pc[r] = "evaluate"
    /\ LET req == ReplayRequest(replayed[r]) IN
        /\ observed' = Set(observed, r, Append(observed[r], req))
        /\ parse_payload' = Capture(parse_payload, r, req)
    /\ log' = Set(log, r, Append(log[r], "evaluate"))
    /\ pc' = Set(pc, r, "evaluate_wait")
    /\ UNCHANGED <<youtube_url, quality, playwright, browser, observer, filled, clicked,
                   replayed, response, download_url, cookies_json, cookies_netscape,
                   result, fail, closes>>

\* lines 113-138: the fetch is answered with resp, the resources are read
\* and scanned, and download_url is tested
EvaluateReturns(r, W) ==
    /\ pc[r] = "evaluate_wait"
    /\ \E resp \in W.responses :
        LET rd == ReadResources(resp)
            sel == SelectDownloadUrl(rd.resources, quality[r])
        IN
        /\ response' = Set(response, r, Some(resp))
        /\ IF ~rd.ok \/ ~sel.ok
           THEN /\ Leave(r, ServerError, "parse", browser[r])
                /\ UNCHANGED download_url
           ELSE /\ download_url' = Set(download_url, r, sel.url)
                /\ pc' = Set(pc, r, IF Falsy(sel.url) THEN "close_404" ELSE "cookies")
                /\ UNCHANGED <<playwright, browser, result, fail>>
    /\ UNCHANGED <<youtube_url, quality, observer, parse_payload, observed, filled,
                   clicked, replayed, cookies_json, cookies_netscape, closes, log>>

\* the fetch is rejected or its body is no JSON: page.evaluate raises
EvaluateFails(r) ==
    /\ pc[r] = "evaluate_wait"
    /\ Leave(r, ServerError, "evaluate", browser[r])
    /\ UNCHANGED <<youtube_url, quality, observer, parse_payload, observed, filled,
                   clicked, replayed, response, download_url, cookies_json,
                   cookies_netscape, closes, log>>

\* lines 137-138
Close404(r) ==
    /\ pc[r] = "close_404"
    /\ closes' = Set(closes, r, closes[r] + 1)
    /\ log' = Set(log, r, Append(log[r], "close"))
    /\ Leave(r, HTTPException(404, "Direct download URL not found"), "download_url",
             BrowserClose(browser[r]))
    /\ UNCHANGED <<youtube_url, quality, observer, parse_payload, observed, filled,
                   clicked, replayed, response, download_url, cookies_json,
                   cookies_netscape>>

\* the text serialized from the snapshot in reverse order
CookiesReversed(r, W) ==
    /\ pc[r] = "cookies"
    /\ \E cookies \in W.cookies :
        /\ cookies_json' = Set(cookies_json, r, cookies)
        /\ cookies_netscape' =
               Set(cookies_netscape, r,
                   cookies_to_netscape([i \in 1..Len(cookies) |-> cookies[Len(cookies) + 1 - i]]))
    /\ log' = Set(log, r, Append(log[r], "cookies"))
    /\ pc' = Set(pc, r, "close")
    /\ UNCHANGED <<youtube_url, quality, playwright, browser, observer, parse_payload,
                   observed, filled, clicked, replayed, response, download_url, result,
                   fail, closes>>

\* lines 143-147
Cookies(r, W) ==
    /\ pc[r] = "cookies"
    /\ \E cookies \in W.cookies :
        /\ cookies_json' = Set(cookies_json, r, cookies)
        /\ cookies_netscape' = Set(cookies_netscape, r, cookies_to_netscape(cookies))
    /\ log' = Set(log, r, Append(log[r], "cookies"))
    /\ pc' = Set(pc, r, "close")
    /\ UNCHANGED <<youtube_url, quality, playwright, browser, observer, parse_payload,
                   observed, filled, clicked, replayed, response, download_url, result,
                   fail, closes>>

\* line 143: context.cookies() raises
CookiesFails(r) ==
    /\ pc[r] = "cookies"
    /\ Unhandled(r, "cookies")

\* lines 150-158
CloseSuccess(r) ==
    /\ pc[r] = "close"
    /\ closes' = Set(closes, r, closes[r] + 1)
    /\ log' = Set(log, r, Append(log[r], "close"))
    /\ Leave(r, [status |-> 200, download_url |-> download_url[r][1],
                 cookies |-> cookies_json[r], cookies_netscape |-> cookies_netscape[r]],
             "none", BrowserClose(browser[r]))
    /\ UNCHANGED <<youtube_url, quality, observer, parse_payload, observed, filled,
                   clicked, replayed, response, download_url, cookies_json,
                   cookies_netscape>>

\* the awaited calls during which the event loop can run capture_request
Awaiting == {"goto", "wait_for_selector", "fill", "click", "sleep", "evaluate",
             "evaluate_wait", "cookies", "close_payload", "close_404", "close"}

\* lines 60-66: the page issues a request and the event loop runs
\* capture_request on it
Observe(r, W) ==
    /\ pc[r] \in Awaiting
    /\ observer[r]
    /\ browser[r] = "open"
    /\ Len(observed[r]) < MaxRequests
    /\ \E req \in W.requests :
        /\ observed' = Set(observed, r, Append(observed[r], req))
        /\ parse_payload' = Capture(parse_payload, r, req)
    /\ UNCHANGED <<pc, youtube_url, quality, playwright, browser, observer, filled,
                   clicked, replayed, response, download_url, cookies_json,
                   cookies_netscape, result, fail, closes, log>>

Step(r, W) ==
    \/ Start(r, W)
    \/ Launch(r)
    \/ LaunchFails(r)
    \/ NewPage(r)
    \/ GotoOk(r)
    \/ GotoTimeout(r)
    \/ WaitForSelectorOk(r)
    \/ WaitForSelectorTimeout(r)
    \/ FillOk(r)
    \/ FillFails(r)
    \/ Click(r, W)
    \/ ClickFails(r)
    \/ Sleep(r)
    \/ ClosePayload(r)
    \/ EvaluateSend(r)
    \/ EvaluateReturns(r, W)
    \/ EvaluateFails(r)
    \/ Close404(r)
    \/ Cookies(r, W)
    \/ CookiesFails(r)
    \/ CloseSuccess(r)
    \/ Observe(r, W)

Init ==
    /\ pc = [r \in Reqs |-> "idle"]
    /\ youtube_url = [r \in Reqs |-> EmptyStr]
    /\ quality = [r \in Reqs |-> "360P"]
    /\ playwright = [r \in Reqs |-> "none"]
    /\ browser = [r \in Reqs |-> "none"]
    /\ observer = [r \in Reqs |-> FALSE]
    /\ parse_payload = [r \in Reqs |-> None]
    /\ observed = [r \in Reqs |-> << >>]
    /\ filled = [r \in Reqs |-> None]
    /\ clicked = [r \in Reqs |-> 0]
    /\ replayed = [r \in Reqs |-> None]
    /\ response = [r \in Reqs |-> None]
    /\ download_url = [r \in Reqs |-> None]
    /\ cookies_json = [r \in Reqs |-> << >>]
    /\ cookies_netscape = [r \in Reqs |-> EmptyStr]
    /\ result = [r \in Reqs |-> [status |-> 0]]
    /\ fail = [r \in Reqs |-> "none"]
    /\ closes = [r \in Reqs |-> 0]
    /\ log = [r \in Reqs |-> << >>]

(***************************************************************************)
(* Inputs: what the site, the upstream API and the browser may hand to the *)
(* handler                                                                 *)
(***************************************************************************)
BodyA == <<"origin", "=cache", "&url=A">>
BodyB == <<"url=B&", "origin", "=cache">>
BodyWeb == <<"origin", "=web", "&url=A">>
InfoUrl == <<"https://api.vidssave.com/api/contentsite_api", "/media", "/info">>

ReqParseA == [url |-> ApiUrl, method |-> "POST", post_data |-> Some(BodyA)]
ReqParseB == [url |-> ApiUrl, method |-> "POST", post_data |-> Some(BodyB)]
ReqNoMarker == [url |-> ApiUrl, method |-> "POST", post_data |-> Some(BodyWeb)]
ReqNoBody == [url |-> ApiUrl, method |-> "POST", post_data |-> None]
ReqPut == [url |-> ApiUrl, method |-> "PUT", post_data |-> Some(BodyA)]
ReqOtherUrl == [url |-> InfoUrl, method |-> "POST", post_data |-> Some(BodyB)]

WideRequests == {ReqParseA, ReqParseB, ReqNoMarker, ReqNoBody, ReqPut, ReqOtherUrl}

U1 == <<"https://cdn.example/1.mp4">>
U2 == <<"https://cdn.example/2.mp4">>
U3 == <<"https://cdn.example/3.mp4">>
U4 == <<"https://cdn.example/4.mp4">>

Full(q, u) ==
    [type |-> Some("video"), format |-> Some("MP4"), quality |-> Some(q),
     download_mode |-> Some("direct"), download_url |-> Some(u)]

ResourceKinds ==
    { Full("360P", U1), Full("360P", U2), Full("720P", U3),
      [Full("360P", U4) EXCEPT !.type = Some("audio")],
      [Full("360P", U4) EXCEPT !.format = Some("WEBM")],
      [Full("360P", U4) EXCEPT !.download_mode = Some("redirect")],
      [type |-> Some("video"), format |-> Some("MP4"), quality |-> Some("360P"),
       download_url |-> Some(U4)],
      [Full("360P", U4) EXCEPT !.download_url = Some(EmptyStr)],
      [Full("360P", U4) EXCEPT !.download_url = None],
      [type |-> Some("video"), format |-> Some("MP4"), quality |-> Some("360P"),
       download_mode |-> Some("direct")] }

ListResponse(resources) == [shape |-> "list", resources |-> resources]
OtherResponse(shape) == [shape |-> shape, resources |-> << >>]

MalformedResponses ==
    {OtherResponse(s) : s \in {"notdict", "nodata", "datanull", "nores", "resnull"}}

WideResponses ==
    {ListResponse(l) : l \in SeqsUpTo(ResourceKinds, MaxRes)} \cup MalformedResponses

NarrowResponses ==
    {ListResponse(<<Full("360P", U1)>>), OtherResponse("nodata"), OtherResponse("notdict")}

CookieKinds ==
    [domain : {<<".", "vidssave", ".", "com">>, <<"vidssave", ".", "com">>},
     path : {<<"/">>},
     secure : BOOLEAN,
     expires : {None, Some(0), Some(-1), Some(25)},
     name : {<<"sid">>},
     value : {<<"abc">>}]

WideCookies == SeqsUpTo(CookieKinds, MaxCookies)

CookieSid ==
    [domain |-> <<"vidssave", ".", "com">>, path |-> <<"/">>, secure |-> TRUE,
     expires |-> Some(0), name |-> <<"sid">>, value |-> <<"abc">>]

NarrowCookies == {<< >>, <<CookieSid>>}

VideoUrl == <<"https://youtu.be/xyz">>

\* the workflow under every request the page may issue
WRequests ==
    [urls |-> {VideoUrl}, qualities |-> {"360P"}, buttons |-> {<<FALSE>>, <<FALSE, TRUE>>},
     requests |-> WideRequests, responses |-> NarrowResponses, cookies |-> NarrowCookies]

\* the workflow under every replay response
WResponses ==
    [urls |-> {VideoUrl}, qualities |-> {"360P", "720P"}, buttons |-> {<<TRUE>>},
     requests |-> {ReqParseA}, responses |-> WideResponses, cookies |-> NarrowCookies]

\* the workflow under every cookie snapshot
WCookies ==
    [urls |-> {VideoUrl}, qualities |-> {"360P"}, buttons |-> {<<TRUE>>},
     requests |-> {ReqParseA}, responses |-> NarrowResponses, cookies |-> WideCookies]

WNarrow ==
    [urls |-> {VideoUrl}, qualities |-> {"360P"}, buttons |-> {<<TRUE>>},
     requests |-> {ReqParseA, ReqParseB}, responses |-> NarrowResponses,
     cookies |-> NarrowCookies]

Next == \E r \in Solo : Step(r, WRequests)
Spec == Init /\ [][Next]_vars

NextSelect == \E r \in Solo : Step(r, WResponses)
SpecSelect == Init /\ [][NextSelect]_vars

NextCookies == \E r \in Solo : Step(r, WCookies)
SpecCookies == Init /\ [][NextCookies]_vars

\* concurrent requests: the event loop interleaves them at every await
NextConc == \E r \in Reqs : Step(r, WNarrow)
SpecConc == Init /\ [][NextConc]_vars

\* the steps that the handler's own timers and the local browser complete;
\* the answer to the fetch of the replay call (EvaluateReturns, EvaluateFails)
\* is the upstream's, and neither fetch nor page.evaluate carries a timeout
Fairness ==
    \A r \in Solo :
        /\ WF_vars(Launch(r) \/ LaunchFails(r))
        /\ WF_vars(NewPage(r))
        /\ WF_vars(GotoTimeout(r))
        /\ WF_vars(WaitForSelectorTimeout(r))
        /\ WF_vars(FillFails(r))
        /\ WF_vars(Click(r, WNarrow) \/ ClickFails(r))
        /\ WF_vars(Sleep(r))
        /\ WF_vars(ClosePayload(r))
        /\ WF_vars(EvaluateSend(r))
        /\ WF_vars(Close404(r))
        /\ WF_vars(Cookies(r, WNarrow) \/ CookiesFails(r))
        /\ WF_vars(CloseSuccess(r))

NextLive == \E r \in Solo : Step(r, WNarrow)
SpecLive == Init /\ [][NextLive]_vars /\ Fairness

(***************************************************************************)
(* Properties                                                              *)
(***************************************************************************)
Answered(r) == result[r].status # 0

\* the predicate of the observer as the specification words it
IsParseRequest(req) ==
    /\ req.method = "POST"
    /\ \E i \in 1..Len(req.url) - 1 : req.url[i] = "/media" /\ req.url[i + 1] = "/parse"
    /\ req.post_data # None
    /\ \E i \in 1..Len(req.post_data[1]) - 1 :
        req.post_data[1][i] = "origin" /\ req.post_data[1][i + 1] = "=cache"

\* the selection predicate as the specification words it
AllFour(e, q) ==
    /\ {"type", "format", "quality", "download_mode"} \subseteq DOMAIN e
    /\ e.type = <<"video">>
    /\ e.format = <<"MP4">>
    /\ e.quality = <<q>>
    /\ e.download_mode = <<"direct">>

\* the resource list a replay response carries, empty when it carries none
ListOf(resp) == IF resp.shape = "list" THEN resp.resources ELSE << >>

\* C1: whenever a request has been answered (with a response or an error, on
\* whatever path), the browser of its session no longer runs and the
\* Playwright scope has been left.
C1_ReleasedBeforeReturn ==
    \A r \in Reqs :
        Answered(r) => browser[r] # "open" /\ playwright[r] # "started"

\* a request ended by the input-wait timeout, its browser gone
C1_Witness ==
    \E r \in Reqs :
        /\ Answered(r)
        /\ fail[r] = "wait_for_selector"
        /\ browser[r] = "closed"
        /\ closes[r] = 0

\* C2: the captured payload is set at most once: it is the body of the first
\* observed request that satisfies the observer's predicate, whatever
\* matching requests follow.
C2_FirstMatchWins ==
    \A r \in Reqs :
        \A i \in 1..Len(observed[r]) :
            ( /\ IsParseRequest(observed[r][i])
              /\ \A k \in 1..(i - 1) : ~IsParseRequest(observed[r][k]) )
            => /\ parse_payload[r] = observed[r][i].post_data
               /\ replayed[r] \in {None, observed[r][i].post_data}

\* the error kind that the specification gives a failure point
ErrorKind(point) ==
    CASE point = "goto" -> "NavigationTimeout"
      [] point = "wait_for_selector" -> "InputNotFound"
      [] point = "payload" -> "PayloadNotCaptured"
      [] point = "download_url" -> "DownloadUrlNotFound"
      [] OTHER -> "InternalError"

\* C3: two requests that failed at failure points of different error kinds
\* are answered with different errors.
C3_DistinctErrors ==
    \A r1, r2 \in Reqs :
        ( /\ Answered(r1) /\ Answered(r2)
          /\ fail[r1] # "none" /\ fail[r2] # "none"
          /\ ErrorKind(fail[r1]) # ErrorKind(fail[r2]) )
        => result[r1] # result[r2]

\* the replay call returned a response whose resource list could be read
ReplayAnswered(r) ==
    /\ response[r] # None
    /\ response[r][1].shape \in {"list", "nodata", "nores"}

NoEntryMatches(r) ==
    \A i \in 1..Len(ListOf(response[r][1])) : ~AllFour(ListOf(response[r][1])[i], quality[r])

\* the first matching entry carries a download_url that is empty or null
FirstMatchHasNoUrl(r) ==
    LET l == ListOf(response[r][1]) IN
    \E i \in 1..Len(l) :
        /\ AllFour(l[i], quality[r])
        /\ \A k \in 1..(i - 1) : ~AllFour(l[k], quality[r])
        /\ "download_url" \in DOMAIN l[i]
        /\ l[i].download_url \in {None, Some(EmptyStr)}

SuccessShape(r) ==
    /\ result[r].status = 200
    /\ DOMAIN result[r] = {"status", "download_url", "cookies", "cookies_netscape"}

\* C4 as stated: an answered request has status 404 exactly when the replay
\* call returned a response and no resource matched, status 500 on every
\* other failure, and status 200 with the three result fields on success.
C4_StatusAsStated ==
    \A r \in Reqs :
        Answered(r) =>
            /\ result[r].status = 404 <=> (ReplayAnswered(r) /\ NoEntryMatches(r))
            /\ (fail[r] # "none" /\ result[r].status # 404) => result[r].status = 500
            /\ fail[r] = "none" => SuccessShape(r)

\* C4 as amended: status 404 exactly when the replay call returned a
\* response and the scan ended without a non-empty download_url: no resource
\* matched, or the first matching resource carries an empty or null
\* download_url.
C4_StatusAmended ==
    \A r \in Reqs :
        Answered(r) =>
            /\ result[r].status = 404 <=>
                   (ReplayAnswered(r) /\ (NoEntryMatches(r) \/ FirstMatchHasNoUrl(r)))
            /\ (fail[r] # "none" /\ result[r].status # 404) => result[r].status = 500
            /\ fail[r] = "none" => SuccessShape(r)

\* a 404 for a response with a matching entry, next to nothing else
C4_Witness ==
    \E r \in Reqs :
        /\ result[r].status = 404
        /\ ReplayAnswered(r)
        /\ ~NoEntryMatches(r)

\* C5: on success the returned download_url is that of the first entry of
\* the resource list, in list order, whose four fields all match; entries
\* before it that match on some fields only are skipped.
C5_FirstFullMatch ==
    \A r \in Reqs :
        result[r].status = 200 =>
            LET l == ListOf(response[r][1]) IN
            \E i \in 1..Len(l) :
                /\ AllFour(l[i], quality[r])
                /\ \A k \in 1..(i - 1) : ~AllFour(l[k], quality[r])
                /\ Get(l[i], "download_url") = Some(result[r].download_url)

\* a success whose selected entry stands behind an entry matching in part
C5_Witness ==
    \E r \in Reqs :
        /\ result[r].status = 200
        /\ Len(ListOf(response[r][1])) >= 2
        /\ ~AllFour(ListOf(response[r][1])[1], quality[r])
        /\ Get(ListOf(response[r][1])[1], "quality") = Some(quality[r])
        /\ result[r].download_url # U4

\* C6: a replay response without data.resources (no data key, or a data
\* object without a resources key) ends in DownloadUrlNotFound, status 404.
C6_MissingResources404 ==
    \A r \in Reqs :
        ( /\ Answered(r)
          /\ response[r] # None
          /\ response[r][1].shape \in {"nodata", "nores"} )
        => result[r].status = 404 /\ fail[r] = "download_url"

C6_Witness ==
    \E r \in Reqs :
        /\ Answered(r)
        /\ response[r] # None
        /\ response[r][1].shape = "nodata"

\* the captured payload is absent or the body of an observed request that
\* satisfied the whole predicate
C7_PayloadFromMatch ==
    \A r \in Reqs :
        \/ parse_payload[r] = None
        \/ \E i \in 1..Len(observed[r]) :
            /\ IsParseRequest(observed[r][i])
            /\ parse_payload[r] = observed[r][i].post_data

\* a newly observed request that fails the predicate leaves the payload as
\* it was
C7_NoCaptureWithoutMatch ==
    \A r \in Reqs :
        ( /\ Len(observed'[r]) = Len(observed[r]) + 1
          /\ ~IsParseRequest(observed'[r][Len(observed'[r])]) )
        => parse_payload'[r] = parse_payload[r]

\* C7: in every reachable state the captured payload is absent or the body
\* of an observed request meeting all three conditions, and a request that
\* fails a condition never changes it.
C7_PredicatePurity == [](C7_PayloadFromMatch) /\ [][C7_NoCaptureWithoutMatch]_vars

\* a payload that survived a request without the marker and one without body
C7_Witness ==
    \E r \in Reqs :
        /\ parse_payload[r] = Some(BodyA)
        /\ Len(observed[r]) = 3
        /\ observed[r][2] = ReqNoMarker
        /\ observed[r][3] = ReqNoBody

\* Python s.split(sep) for a separator of one token
RECURSIVE Split(_, _)
Split(s, sep) ==
    IF \A i \in 1..Len(s) : s[i] # sep THEN <<s>>
    ELSE LET i == CHOOSE j \in 1..Len(s) : s[j] = sep /\ \A k \in 1..(j - 1) : s[k] # sep
         IN <<SubSeq(s, 1, i - 1)>> \o Split(SubSeq(s, i + 1, Len(s)), sep)

DigitValue(ch) ==
    CASE ch = "0" -> 0 [] ch = "1" -> 1 [] ch = "2" -> 2 [] ch = "3" -> 3 [] ch = "4" -> 4
      [] ch = "5" -> 5 [] ch = "6" -> 6 [] ch = "7" -> 7 [] ch = "8" -> 8 [] ch = "9" -> 9

Digits == {"0", "1", "2", "3", "4", "5", "6", "7", "8", "9"}

RECURSIVE ParseNat(_)
ParseNat(s) ==
    IF Len(s) = 0 THEN 0
    ELSE ParseNat(SubSeq(s, 1, Len(s) - 1)) * 10 + DigitValue(s[Len(s)])

IsNumber(s) ==
    LET d == IF Len(s) > 0 /\ s[1] = "-" THEN Tail(s) ELSE s IN
    Len(d) > 0 /\ \A i \in 1..Len(d) : d[i] \in Digits

ParseInt(s) == IF s[1] = "-" THEN 0 - ParseNat(Tail(s)) ELSE ParseNat(s)

SnapshotTaken(r) == pc[r] \in {"close", "done"} /\ fail[r] = "none"

\* C8: the serialization is the header line followed by one line per cookie
\* in input order, each line the seven fields in order joined by tabs, the
\* lines joined by newlines with none after the last; no cookie, header only.
C8_NetscapeLayout ==
    \A r \in Reqs :
        SnapshotTaken(r) =>
            LET lines == Split(cookies_netscape[r], "\n") IN
            /\ Len(lines) = Len(cookies_json[r]) + 1
            /\ lines[1] = <<"# Netscape HTTP Cookie File">>
            /\ \A i \in 1..Len(cookies_json[r]) :
                LET f == Split(lines[i + 1], "\t")
                    c == cookies_json[r][i]
                IN
                /\ Len(f) = 7
                /\ f[1] = c.domain
                /\ f[2] \in {<<"TRUE">>, <<"FALSE">>}
                /\ f[3] = c.path
                /\ f[4] \in {<<"TRUE">>, <<"FALSE">>}
                /\ IsNumber(f[5])
                /\ f[6] = c.name
                /\ f[7] = c.value
            /\ cookies_json[r] = << >> => cookies_netscape[r] = <<"# Netscape HTTP Cookie File">>

\* two different cookies serialized
C8_Witness ==
    \E r \in Reqs :
        /\ SnapshotTaken(r)
        /\ Len(cookies_json[r]) = 2
        /\ cookies_json[r][1] # cookies_json[r][2]
        /\ cookies_netscape[r][Len(cookies_netscape[r])] = "abc"

\* C9: in every cookie line the second field is TRUE exactly when the domain
\* starts with ".", the fourth is TRUE exactly when secure is true, and the
\* fifth is 0 for a null expires and the expires value otherwise.
C9_FlagsAndExpires ==
    \A r \in Reqs :
        SnapshotTaken(r) =>
            LET lines == Split(cookies_netscape[r], "\n") IN
            \A i \in 1..Len(cookies_json[r]) :
                LET f == Split(lines[i + 1], "\t")
                    c == cookies_json[r][i]
                IN
                /\ f[2] = (IF c.domain[1] = "." THEN <<"TRUE">> ELSE <<"FALSE">>)
                /\ f[4] = (IF c.secure THEN <<"TRUE">> ELSE <<"FALSE">>)
                /\ ParseInt(f[5]) = (IF c.expires = None THEN 0 ELSE c.expires[1])

\* a dotted insecure cookie without expiry next to a plain secure one with
\* a two-digit expiry
C9_Witness ==
    \E r \in Reqs :
        /\ SnapshotTaken(r)
        /\ Len(cookies_json[r]) = 2
        /\ cookies_json[r][1].domain[1] = "." /\ ~cookies_json[r][1].secure
        /\ cookies_json[r][1].expires = None
        /\ cookies_json[r][2].domain[1] # "." /\ cookies_json[r][2].secure
        /\ cookies_json[r][2].expires = Some(25)

\* C10: every request that has entered the handler is eventually answered.
C10_Terminates ==
    \A r \in Reqs : (pc[r] # "idle") ~> Answered(r)

\* the captured payload of a session is absent or the body of a request
\* observed in that same session, and what a request returns is what its
\* own session selected and snapshotted
C11_OwnSession ==
    \A r \in Reqs :
        /\ \/ parse_payload[r] = None
           \/ \E i \in 1..Len(observed[r]) : parse_payload[r] = observed[r][i].post_data
        /\ result[r].status = 200 =>
            /\ \E i \in 1..Len(ListOf(response[r][1])) :
                   Get(ListOf(response[r][1])[i], "download_url") = Some(result[r].download_url)
            /\ result[r].cookies = cookies_json[r]

\* a step that changes the captured payload of a session is the observation
\* of a request in that session
C11_NoCrossCapture ==
    \A r \in Reqs :
        parse_payload'[r] # parse_payload[r] => Len(observed'[r]) = Len(observed[r]) + 1

\* C11: with requests running concurrently, under every interleaving, a
\* request observed in one session neither becomes nor changes the captured
\* payload of another, and the download_url and cookies a request returns
\* come from its own session.
C11_SessionIsolation == [](C11_OwnSession) /\ [][C11_NoCrossCapture]_vars

\* two sessions in flight at once, each holding its own, different payload
C11_Witness ==
    /\ pc["r1"] = "sleep" /\ pc["r2"] = "fill"
    /\ parse_payload["r1"] = Some(BodyA)
    /\ parse_payload["r2"] = Some(BodyB)
    /\ observed["r1"] = <<ReqParseA>>
    /\ observed["r2"] = <<ReqParseB>>

\* the number of times step stands in the log
Count(l, step) == Cardinality({i \in 1..Len(l) : l[i] = step})

\* the steps of the handler in the order of the source
StepOrder == <<"launch", "new_context", "new_page", "on", "goto", "wait_for_selector",
               "fill", "click", "sleep", "evaluate", "cookies", "close">>

Rank(step) ==
    IF step = "no_click" THEN 8
    ELSE CHOOSE i \in 1..Len(StepOrder) : StepOrder[i] = step

\* no step is invoked twice and the steps follow the order of the source
C12_SinglePass ==
    \A r \in Reqs :
        /\ Count(log[r], "goto") <= 1
        /\ Count(log[r], "evaluate") <= 1
        /\ \A i, j \in 1..Len(log[r]) : i < j => Rank(log[r][i]) < Rank(log[r][j])
        /\ pc[r] \in {"wait_for_selector", "fill", "click", "sleep", "evaluate",
                      "evaluate_wait", "cookies", "close_payload", "close_404", "close"}
               => Count(log[r], "goto") = 1
        /\ (Answered(r) /\ fail[r] # "launch") => Count(log[r], "goto") = 1

\* once a step has failed nothing more is invoked
C12_NoStepAfterFailure ==
    \A r \in Reqs :
        fail[r] # "none" => /\ pc'[r] = "done"
                            /\ log'[r] = log[r]
                            /\ fail'[r] = fail[r]

IndexOf(l, step) ==
    IF \A i \in 1..Len(l) : l[i] # step THEN 0
    ELSE CHOOSE i \in 1..Len(l) : l[i] = step /\ \A k \in 1..(i - 1) : l[k] # step

Has(l, step) == IndexOf(l, step) # 0

\* the observer is registered before the navigation and stays registered
\* for as long as the page can issue requests
C13_ObserverRegistered ==
    \A r \in Reqs :
        /\ (pc[r] \in Awaiting \/ Has(log[r], "goto")) =>
               /\ observer[r]
               /\ Has(log[r], "on")
        /\ Has(log[r], "goto") => IndexOf(log[r], "on") < IndexOf(log[r], "goto")

\* a matching request that the page issues during navigation or before the
\* form is submitted becomes the captured payload
C13_EarlyCapture ==
    \A r \in Reqs :
        ( /\ pc[r] \in {"goto", "wait_for_selector", "fill", "click"}
          /\ Len(observed'[r]) = Len(observed[r]) + 1
          /\ IsParseRequest(observed'[r][Len(observed'[r])]) )
        => parse_payload'[r] = observed'[r][Len(observed'[r])].post_data

\* C13: the observer is registered before navigation starts, so that the
\* requests of the page from the start of navigation on are evaluated by
\* capture_request, and a matching one issued during navigation or before
\* the form is submitted is captured.
C13_ObservedFromNavigation == [](C13_ObserverRegistered) /\ [][C13_EarlyCapture]_vars

\* a payload captured while the navigation is still under way
C13_Witness ==
    \E r \in Reqs :
        /\ pc[r] = "goto"
        /\ parse_payload[r] = Some(BodyB)
        /\ observed[r] = <<ReqNoBody, ReqParseB>>

\* C14: a request with no payload at the end of the post-submission wait
\* fails with PayloadNotCaptured without a replay call, a resource selection
\* or a cookie snapshot; a request failing with DownloadUrlNotFound takes no
\* cookie snapshot.
C14_ShortCircuit ==
    \A r \in Reqs :
        /\ (Has(log[r], "sleep") /\ Falsy(replayed[r])) =>
               /\ pc[r] \in {"close_payload", "done"}
               /\ ~Has(log[r], "evaluate")
               /\ response[r] = None
               /\ download_url[r] = None
               /\ ~Has(log[r], "cookies")
               /\ cookies_json[r] = << >>
               /\ Answered(r) =>
                      /\ fail[r] = "payload"
                      /\ result[r] = [status |-> 500, detail |-> "Failed to capture parse payload"]
        /\ (pc[r] = "close_404" \/ fail[r] = "download_url") =>
               /\ ~Has(log[r], "cookies")
               /\ cookies_json[r] = << >>
               /\ Answered(r) => result[r].status = 404

\* a request answered with the payload error after its wait, having seen
\* only requests that do not match
C14_Witness ==
    \E r \in Reqs :
        /\ Answered(r)
        /\ fail[r] = "payload"
        /\ Len(observed[r]) = 2
        /\ log[r][Len(log[r])] = "close"

\* C15: the log of a request that came to wait for the input control holds
\* a fixed wait between the navigation and that wait, and the log of a
\* request that tested its payload holds a second one after the click.
C15_TwoFixedWaits ==
    \A r \in Reqs :
        /\ Has(log[r], "wait_for_selector") =>
               \E i \in 1..Len(log[r]) :
                   /\ log[r][i] = "sleep"
                   /\ IndexOf(log[r], "goto") < i
                   /\ i < IndexOf(log[r], "wait_for_selector")
        /\ pc[r] \in {"close_payload", "evaluate"} =>
               \E i \in 1..Len(log[r]) :
                   /\ log[r][i] = "sleep"
                   /\ IndexOf(log[r], "fill") < i

\* the wait ends: the replay call is entered exactly when a payload is
\* there, with that payload as its argument
C16_CallIffCaptured ==
    \A r \in Reqs :
        (pc[r] = "sleep" /\ pc'[r] # "sleep") =>
            /\ pc'[r] = "evaluate" <=> (parse_payload[r] # None /\ parse_payload[r] # <<EmptyStr>>)
            /\ pc'[r] # "evaluate" => (pc'[r] = "close_payload" /\ replayed'[r] = None)
            /\ pc'[r] = "evaluate" => replayed'[r] = parse_payload[r]

\* the request of the replay call is seen in the session that captured the
\* payload and carries the payload as its body
C16_BodyIsPayload ==
    \A r \in Reqs :
        (pc[r] = "evaluate" /\ pc'[r] = "evaluate_wait") =>
            /\ Len(observed'[r]) = Len(observed[r]) + 1
            /\ observed'[r][Len(observed'[r])].post_data = replayed[r]
            /\ observed'[r][Len(observed'[r])].method = "POST"
            /\ observed'[r][Len(observed'[r])].url = ApiUrl
            /\ \A o \in Reqs \ {r} : observed'[o] = observed[o]

\* a replay call was made only after the wait and only with a payload that
\* the session had observed
C16_ReplayedWasCaptured ==
    \A r \in Reqs :
        Has(log[r], "evaluate") =>
            /\ Has(log[r], "sleep")
            /\ \E i \in 1..Len(observed[r]) :
                /\ IsParseRequest(observed[r][i])
                /\ observed[r][i].post_data = replayed[r]

\* C16: the replay call is made if and only if a payload was captured by the
\* end of the post-submission wait, and its body is that payload, unmodified,
\* sent from the page of the session that captured it.
C16_ReplayExactPayload ==
    /\ [](C16_ReplayedWasCaptured)
    /\ [][C16_CallIffCaptured]_vars
    /\ [][C16_BodyIsPayload]_vars

\* a replay call under way that carries the payload captured from the site
C16_Witness ==
    \E r \in Reqs :
        /\ pc[r] = "evaluate_wait"
        /\ replayed[r] = Some(BodyB)
        /\ observed[r] = <<ReqParseB, [url |-> ApiUrl, method |-> "POST", post_data |-> Some(BodyB)]>>

\* the first entry of the resource list matching all four fields, 0 if none
FirstAllFour(r) ==
    LET l == ListOf(response[r][1]) IN
    IF \A i \in 1..Len(l) : ~AllFour(l[i], quality[r]) THEN 0
    ELSE CHOOSE i \in 1..Len(l) :
             AllFour(l[i], quality[r]) /\ \A k \in 1..(i - 1) : ~AllFour(l[k], quality[r])

\* C17 as stated: a request whose replay response lists an entry matching
\* all four fields is not answered with 404, whatever the download_url of
\* the first matching entry.
C17_No404WhenMatch ==
    \A r \in Reqs :
        (Answered(r) /\ ReplayAnswered(r) /\ FirstAllFour(r) # 0) => result[r].status # 404

\* C17 as amended: with a matching entry in the list, the outcome follows
\* the download_url of the first matching entry: non-empty, no 404; empty or
\* null, 404; key missing, the unexpected-error 500.
C17_OutcomeByFirstMatch ==
    \A r \in Reqs :
        (Answered(r) /\ ReplayAnswered(r) /\ FirstAllFour(r) # 0) =>
            LET e == ListOf(response[r][1])[FirstAllFour(r)] IN
            /\ ("download_url" \in DOMAIN e /\ e.download_url \notin {None, Some(EmptyStr)})
                   => (result[r].status # 404 /\ fail[r] # "download_url")
            /\ ("download_url" \in DOMAIN e /\ e.download_url \in {None, Some(EmptyStr)})
                   => (result[r].status = 404 /\ fail[r] = "download_url")
            /\ "download_url" \notin DOMAIN e
                   => (result[r] = [status |-> 500, detail |-> "Internal Server Error"]
                       /\ fail[r] = "parse")

\* a 404 although a later entry matches and carries a URL
C17_Witness ==
    \E r \in Reqs :
        /\ result[r].status = 404
        /\ ReplayAnswered(r)
        /\ FirstAllFour(r) = 1
        /\ Len(ListOf(response[r][1])) = 2
        /\ ListOf(response[r][1])[2] = Full(quality[r], U1)

\* the steps that use the session
SessionSteps == {"goto", "wait_for_selector", "fill", "click", "no_click", "evaluate",
                 "cookies"}

\* C18: on every path the browser is closed at most once, and no step that
\* uses the session is invoked after the browser has been closed.
C18_CloseOnceAndLast ==
    \A r \in Reqs :
        /\ closes[r] <= 1
        /\ Count(log[r], "close") = closes[r]
        /\ \A i, j \in 1..Len(log[r]) :
               (log[r][i] = "close" /\ i < j) => log[r][j] \notin SessionSteps
        /\ (browser[r] = "closed" /\ closes[r] = 1) => pc[r] = "done"
        /\ pc[r] \in Awaiting => browser[r] = "open"

\* a request that closed its browser in the payload branch and was answered
C18_Witness ==
    \E r \in Reqs :
        /\ pc[r] = "done"
        /\ fail[r] = "payload"
        /\ closes[r] = 1
        /\ browser[r] = "closed"
        /\ Has(log[r], "click")

\* C19: on success the snapshot is taken after the replay call returned and
\* a download URL was selected and before the browser is closed, and the
\* cookies_netscape of the result is the serialization of the cookies of the
\* result, cookie by cookie in the same order.
C19_SnapshotOrderAndText ==
    \A r \in Reqs :
        /\ pc[r] = "cookies" =>
               /\ response[r] # None
               /\ ~Falsy(download_url[r])
               /\ browser[r] = "open"
               /\ closes[r] = 0
        /\ result[r].status = 200 =>
               /\ IndexOf(log[r], "evaluate") < IndexOf(log[r], "cookies")
               /\ IndexOf(log[r], "cookies") < IndexOf(log[r], "close")
               /\ result[r].cookies = cookies_json[r]
               /\ LET lines == Split(result[r].cookies_netscape, "\n") IN
                  /\ Len(lines) = Len(result[r].cookies) + 1
                  /\ \A i \in 1..Len(result[r].cookies) :
                         LET f == Split(lines[i + 1], "\t")
                             c == result[r].cookies[i]
                         IN
                         /\ f[1] = c.domain
                         /\ f[4] = (IF c.secure THEN <<"TRUE">> ELSE <<"FALSE">>)
                         /\ ParseInt(f[5]) = (IF c.expires = None THEN 0 ELSE c.expires[1])
                         /\ f[6] = c.name
                         /\ f[7] = c.value

\* a success that returns two cookies differing in domain and expiry
C19_Witness ==
    \E r \in Reqs :
        /\ result[r].status = 200
        /\ Len(result[r].cookies) = 2
        /\ result[r].cookies[1].domain # result[r].cookies[2].domain
        /\ result[r].cookies[1].expires = Some(-1)
        /\ result[r].cookies[2].expires = Some(0)

====
